---------------------------- MODULE Spec2Model ----------------------------
(***************************************************************************)
(* Browser session service (src/browser-server): the display pool          *)
(* (ScreenManager), the browser table (BrowserManager), the session        *)
(* registry (SessionManager) and its background cleanup loop.              *)
(*                                                                         *)
(* The service runs on one asyncio event loop: the code between two awaits *)
(* that really suspend is one atomic step.  Every action below is such a   *)
(* step, or a part of one that commutes with the steps of the other tasks. *)
(* A create_session call, its browser and its session are all named by the *)
(* call's number (the code draws two fresh uuid4 values per call).         *)
(***************************************************************************)
EXTENDS Integers, FiniteSets, Sequences, TLC

\* ------------------------------------------------------------------ bounds
NumCalls == 3          \* create_session calls made over a run
NumDeleters == 1       \* concurrent callers of DELETE /sessions/{id}
MaxScreens == 2        \* max_screens handed to ScreenManager
MAX_SESSIONS == 2      \* settings.MAX_SESSIONS
MaxTime == 2           \* the clock runs 0 .. MaxTime
MaxTimeout == 1        \* request.timeout ranges over 1 .. MaxTimeout
NumLateCalls == 2      \* create_session calls made over a run that shuts down

\* --------------------------------------------------------------- constants
BaseDisplay == 99      \* base_display
BaseVncPort == 5900    \* base_vnc_port

\* Python's None where the other values are numbers (a display number, a
\* lock holder, a session id); string-valued fields hold "None".
None == -1

Calls == 1 .. NumCalls
Manual == 1 .. NumDeleters
Reaper == 0
Deleters == Manual \cup {Reaper}
Displays == BaseDisplay .. (BaseDisplay + MaxScreens - 1)
Timeouts == 1 .. MaxTimeout

\* request.timeout is an int that nothing checks: what a client may send.
RequestTimeouts == (0 - MaxTimeout) .. MaxTimeout

VARIABLES
    screens,           \* ScreenManager.screens: display_num -> slot record
    screenLock,        \* ScreenManager._lock: its holder, or None
    browsers,          \* BrowserManager.browsers: browser id -> browser_data
    browser_displays,  \* BrowserManager.browser_displays: browser id -> display_num
    sessions,          \* SessionManager.sessions: session id -> session record
    now,               \* datetime.now()
    call,              \* each create_session call: position and locals
    del,               \* each delete_session caller: position and locals
    to_remove,         \* _cleanup_expired_sessions: ids still to delete
    leases,            \* history: <<call, display>> acquired and not yet released
    engine,            \* history: each call's browser process
    hist,              \* history: per session id, what delete_session calls did
    shut,              \* the shutdown handler: position and locals
    released           \* history: the last direct call of release_screen

vars == <<screens, screenLock, browsers, browser_displays, sessions, now,
          call, del, to_remove, leases, engine, hist, shut, released>>

\* ----------------------------------------------------------- dictionaries
Put(f, k, v) == [x \in DOMAIN f \cup {k} |-> IF x = k THEN v ELSE f[x]]

\* A pop that removes nothing.
Pop_Kept(f, k) == f

Pop(f, k) == [x \in DOMAIN f \ {k} |-> f[x]]

Get(f, k) == IF k \in DOMAIN f THEN f[k] ELSE None

Empty == [x \in {} |-> None]

\* ------------------------------------------------------------ ScreenManager
VncUrl(d) == "vnc"

\* A pool whose slots all listen on the base port.
InitScreens_SharedPort ==
    [d \in Displays |->
        [in_use |-> FALSE, xvfb_process |-> "None", vnc_process |-> "None",
         geometry |-> <<1280, 1024, 24>>,
         vnc_port |-> BaseVncPort]]

InitScreens ==
    [d \in Displays |->
        [in_use |-> FALSE, xvfb_process |-> "None", vnc_process |-> "None",
         geometry |-> <<1280, 1024, 24>>,
         vnc_port |-> BaseVncPort + (d - BaseDisplay)]]

\* A pool whose lock excludes nobody.
LockFree_Unguarded == TRUE

\* The lock is an asyncio.Lock: `async with` proceeds only when it is free.
LockFree == screenLock = None

\* A cleanup that keeps the browser lock while it runs ScreenManager.cleanup.
BrowserLockFree_Nested == shut.pc \notin {"closing", "pool_wait", "stop_wait"}

\* BrowserManager._lock: only BrowserManager.cleanup holds it across an
\* await, from its entry until the last browser is closed.
BrowserLockFree == shut.pc # "closing"

\* get_available_screen's test of a slot.
SlotFree(scr, d) == ~scr[d].in_use

\* get_available_screen on success: the slot is marked before it is returned.
MarkInUse(scr, d) == [scr EXCEPT ![d].in_use = TRUE]

\* A release_screen that does not look the display number up.
release_screen_Unchecked(scr, display_num) ==
    [screens |-> [d \in DOMAIN scr |->
                     IF d = display_num THEN [scr[d] EXCEPT !.in_use = FALSE]
                                        ELSE scr[d]],
     result |-> TRUE]

\* A release_screen that stops the slot's processes.
release_screen_Stops(scr, display_num) ==
    [screens |-> [d \in DOMAIN scr |->
                     IF d = display_num
                     THEN [scr[d] EXCEPT !.in_use = FALSE,
                                         !.xvfb_process = "None",
                                         !.vnc_process = "None"]
                     ELSE scr[d]],
     result |-> display_num \in DOMAIN scr]

\* release_screen(display_num) on the slot table scr, under the pool lock:
\* the table it leaves and the value it returns.
release_screen(scr, display_num) ==
    IF display_num \notin DOMAIN scr
    THEN [screens |-> scr, result |-> FALSE]
    ELSE [screens |-> [scr EXCEPT ![display_num].in_use = FALSE],
          result |-> TRUE]


\* --------------------------------------------------------------------- Init
IdleCall ==
    [pc |-> "idle", req_headless |-> TRUE, headless |-> TRUE, timeout |-> 1,
     display_num |-> None, vnc_url |-> "None", scan |-> BaseDisplay,
     failed |-> {}, downgraded |-> FALSE, known_type |-> TRUE,
     result |-> "None"]

IdleDel == [pc |-> "idle", sid |-> None, display_num |-> None]

\* The shutdown handler has not been called.
IdleShut == [pc |-> "idle", to_close |-> {}, display_num |-> None,
             process |-> "None", success |-> TRUE]

\* release_screen has not been called directly.
NoRelease == [display_num |-> None, result |-> "None", before |-> InitScreens]

NoHist == [popped |-> 0, closes |-> 0, releases |-> 0, trues |-> 0, raised |-> 0]

Init ==
    /\ screens = InitScreens
    /\ screenLock = None
    /\ browsers = Empty
    /\ browser_displays = Empty
    /\ sessions = Empty
    /\ now = 0
    /\ call = [c \in Calls |-> IdleCall]
    /\ del = [d \in Deleters |-> IdleDel]
    /\ to_remove = {}
    /\ leases = {}
    /\ engine = [c \in Calls |-> "None"]
    /\ hist = [c \in Calls |-> NoHist]
    /\ shut = IdleShut
    /\ released = NoRelease

\* ----------------------------------------------------------- create_session
\* In the operators below `me` is the record of call c's locals at the point
\* the code has reached within the present atomic step.

\* create_session has ended with this result, its locals are gone; what is
\* kept is history: whether the request was downgraded, and whether it named
\* an engine that exists.
Done(me, result) ==
    [IdleCall EXCEPT !.pc = "done", !.result = result,
                     !.downgraded = me.downgraded,
                     !.known_type = me.known_type]

\* A capacity test that lets one session too many in.
AtCapacity_OffByOne == Cardinality(DOMAIN sessions) > MAX_SESSIONS

\* create_session's capacity test, made under the registry lock.
AtCapacity == Cardinality(DOMAIN sessions) >= MAX_SESSIONS

\* A create_browser_instance that keeps the requested mode with no display.
FallbackHeadless_Kept(headless, display_num) == headless

\* create_browser_instance: with no display to run on, the browser is
\* launched headless whatever the request asked for.
FallbackHeadless(headless, display_num) ==
    IF display_num = None THEN TRUE ELSE headless

\* The engines create_browser_instance knows, and what a request may name.
BrowserTypes == {"chromium", "firefox", "webkit"}

RequestedTypes == BrowserTypes \cup {"opera"}

\* A create_browser_instance that takes any browser_type.
Unsupported_Unchecked(browser_type) == FALSE

\* create_browser_instance: `browser_type not in browser_types`.
Unsupported(browser_type) == browser_type \notin BrowserTypes

\* create_browser_instance: `not self.playwright`; cleanup sets it to None
\* as its last statement.
NotInitialized == shut.pc = "done"

\* Calls are numbered in the order they arrive.
Arrived(c) == IF c = 1 THEN TRUE ELSE call[c - 1].pc # "idle"

\* create_browser_instance once get_available_screen has returned
\* (display_num, vnc_url): the fall back to headless, or the banner whose
\* vnc_url.replace raises when the display came without a VNC url.
AfterAcquire(me, display_num, vnc_url) ==
    IF display_num = None
    THEN [me EXCEPT !.pc = "launch",
                    !.headless = FallbackHeadless(me.headless, display_num),
                    !.downgraded = TRUE]
    ELSE IF vnc_url = "None"
    THEN [Done(me, "error") EXCEPT !.failed = me.failed]
    ELSE [me EXCEPT !.pc = "launch", !.display_num = display_num,
                    !.vnc_url = vnc_url,
                    !.headless = FallbackHeadless(me.headless, display_num)]

\* get_available_screen returns (display_num, vnc_url) with the slot marked.
LeaseSlot(c, me, d, scr, vnc_url) ==
    /\ screens' = MarkInUse(scr, d)
    /\ screenLock' = None
    /\ leases' = leases \cup {<<c, d>>}
    /\ call' = [call EXCEPT ![c] = AfterAcquire(me, d, vnc_url)]

\* get_available_screen's loop from slot `from` on, run to its first
\* suspension.  The slots are taken in ascending order (the dict's insertion
\* order); a slot in use is passed over; a free slot whose Xvfb runs is
\* leased at once (start_screen's early return); a free slot whose Xvfb does
\* not run is started: Popen raises, start_screen returns (False, None) and
\* the loop goes on, or Popen succeeds and start_screen sleeps, the lock
\* held.  With no slot left the loop ends and (None, None) is returned.
\* me.failed records the slots whose start_screen returned False.
ScanFrom(c, me, from, scr) ==
    LET free == {k \in Displays : k >= from /\ SlotFree(scr, k)}
        stopped(k) == scr[k].xvfb_process = "None"
        reach(k) == \A j \in free : j < k => stopped(j)
        past(k) == [me EXCEPT !.failed = @ \cup {j \in free : j < k}]
    IN \/ \E k \in free :
             /\ reach(k)
             /\ IF stopped(k)
                THEN /\ screens' = scr
                     /\ screenLock' = c
                     /\ leases' = leases
                     /\ call' = [call EXCEPT ![c] =
                                    [past(k) EXCEPT !.pc = "xvfb_wait", !.scan = k]]
                ELSE LeaseSlot(c, past(k), k, scr, VncUrl(k))
       \/ /\ \A j \in free : stopped(j)
          /\ screens' = scr
          /\ screenLock' = None
          /\ leases' = leases
          /\ call' = [call EXCEPT ![c] =
                         AfterAcquire([me EXCEPT !.failed = @ \cup free],
                                      None, "None")]

\* get_available_screen: `async with self._lock` takes a free lock without
\* suspending and the loop starts at once; a held lock is waited for.
GetAvailableScreen(c, me) ==
    IF LockFree
    THEN ScanFrom(c, me, BaseDisplay, screens)
    ELSE /\ call' = [call EXCEPT ![c] = [me EXCEPT !.pc = "acquire"]]
         /\ UNCHANGED <<screens, screenLock, leases>>

\* create_session up to its first suspension: the capacity test, then
\* create_browser_instance: its two tests, then up to the engine launch
\* (headless) or into get_available_screen (headed).
CreateSession(c, browser_type, headless, timeout) ==
    /\ call[c].pc = "idle"
    /\ Arrived(c)
    /\ LET me == [call[c] EXCEPT !.req_headless = headless,
                                 !.headless = headless,
                                 !.timeout = timeout,
                                 !.known_type = browser_type \in BrowserTypes]
       IN IF AtCapacity
          THEN /\ call' = [call EXCEPT ![c] = Done(me, "capacity")]
               /\ UNCHANGED <<screens, screenLock, leases>>
          ELSE IF NotInitialized
          THEN /\ call' = [call EXCEPT ![c] = Done(me, "not_initialized")]
               /\ UNCHANGED <<screens, screenLock, leases>>
          ELSE IF Unsupported(browser_type)
          THEN /\ call' = [call EXCEPT ![c] = Done(me, "unsupported")]
               /\ UNCHANGED <<screens, screenLock, leases>>
          ELSE IF headless
          THEN /\ call' = [call EXCEPT ![c] = [me EXCEPT !.pc = "launch"]]
               /\ UNCHANGED <<screens, screenLock, leases>>
          ELSE GetAvailableScreen(c, me)
    /\ UNCHANGED <<browsers, browser_displays, sessions, now, del, to_remove,
                   engine, hist, shut, released>>

\* A call that waited for the pool lock is given it.
LockGranted(c) ==
    /\ call[c].pc = "acquire"
    /\ LockFree
    /\ ScanFrom(c, call[c], BaseDisplay, screens)
    /\ UNCHANGED <<browsers, browser_displays, sessions, now, del, to_remove,
                   engine, hist, shut, released>>

\* start_screen after its first sleep: Xvfb has died (False, None); or it
\* runs and is recorded, and x11vnc's Popen raises (False, None) or x11vnc is
\* spawned and start_screen sleeps again.
XvfbSettled(c) ==
    /\ call[c].pc = "xvfb_wait"
    /\ LET d == call[c].scan
           started == [screens EXCEPT ![d].xvfb_process = "running"]
           me == [call[c] EXCEPT !.failed = @ \cup {d}] IN
       \/ ScanFrom(c, me, d + 1, screens)
       \/ ScanFrom(c, me, d + 1, started)
       \/ /\ screens' = started
          /\ call' = [call EXCEPT ![c].pc = "vnc_wait"]
          /\ UNCHANGED <<screenLock, leases>>
    /\ UNCHANGED <<browsers, browser_displays, sessions, now, del, to_remove,
                   engine, hist, shut, released>>

\* start_screen after its second sleep: (True, None) when x11vnc has died,
\* (True, vnc_url) when it runs and is recorded.
VncSettled(c) ==
    /\ call[c].pc = "vnc_wait"
    /\ LET d == call[c].scan IN
       \/ LeaseSlot(c, call[c], d, screens, "None")
       \/ LeaseSlot(c, call[c], d, [screens EXCEPT ![d].vnc_process = "running"],
                    VncUrl(d))
    /\ UNCHANGED <<browsers, browser_displays, sessions, now, del, to_remove,
                   engine, hist, shut, released>>

\* The browser is stored in both tables (create_browser_instance), then the
\* session in the registry (create_session), with no suspension in between.
Store(c) ==
    /\ browsers' = Put(browsers, c,
                       [headless |-> call[c].headless,
                        display_num |-> call[c].display_num,
                        vnc_url |-> call[c].vnc_url])
    /\ browser_displays' = IF call[c].display_num # None
                           THEN Put(browser_displays, c, call[c].display_num)
                           ELSE browser_displays
    /\ sessions' = Put(sessions, c,
                       [browser_id |-> c,
                        headless |-> call[c].req_headless,
                        created_at |-> now,
                        expires_at |-> now + call[c].timeout])
    /\ call' = [call EXCEPT ![c] = Done(call[c], "ok")]

\* create_browser_instance's `async with self._lock`: the store is made at
\* once when the browser lock is free, after a wait when cleanup holds it.
StoreSession(c) ==
    IF BrowserLockFree
    THEN Store(c)
    ELSE /\ call' = [call EXCEPT ![c].pc = "store_wait", ![c].failed = {}]
         /\ UNCHANGED <<browsers, browser_displays, sessions>>

\* A create_browser_instance that waited for the browser lock is given it.
StoreGranted(c) ==
    /\ call[c].pc = "store_wait"
    /\ BrowserLockFree
    /\ Store(c)
    /\ UNCHANGED <<screens, screenLock, now, del, to_remove, leases, engine,
                   hist, shut, released>>

\* browser_instance.launch(**launch_options): it raises, and the exception
\* leaves create_browser_instance and create_session; or the browser runs.
\* A headless browser is stored at once; for a headed one the context and
\* the page are opened first (awaits, their exceptions caught).
Launch(c) ==
    /\ call[c].pc = "launch"
    /\ \/ /\ call' = [call EXCEPT ![c] = Done(call[c], "launch_error")]
          /\ UNCHANGED <<engine, browsers, browser_displays, sessions>>
       \/ /\ engine' = [engine EXCEPT ![c] = "open"]
          /\ IF call[c].headless
             THEN StoreSession(c)
             ELSE /\ call' = [call EXCEPT ![c].pc = "new_context",
                                           ![c].failed = {}]
                  /\ UNCHANGED <<browsers, browser_displays, sessions>>
    /\ UNCHANGED <<screens, screenLock, now, del, to_remove, leases, hist,
                   shut, released>>

\* The headed browser's page is open (or opening it failed and was logged).
NewContext(c) ==
    /\ call[c].pc = "new_context"
    /\ StoreSession(c)
    /\ UNCHANGED <<screens, screenLock, now, del, to_remove, leases, engine, hist,
                   shut, released>>

\* ----------------------------------------------------------- delete_session
\* delete_session has ended for caller d, its locals are gone.  The cleanup
\* task, whose loop catches nothing, ends with an exception that leaves it.
Returned(d, result) ==
    [del EXCEPT ![d] = [IdleDel EXCEPT
        !.pc = IF d = Reaper /\ result = "raised" THEN "dead" ELSE "idle"]]

\* close_browser: both tables are popped under the browser lock; then the
\* engine is closed (an await).  With no browser of that id close_browser
\* returns False, and delete_session, which ignores that, returns True.
\* h is the history up to here.
PopBrowser(d, sid, h) ==
    /\ browsers' = Pop(browsers, sid)
    /\ browser_displays' = Pop(browser_displays, sid)
    /\ IF sid \in DOMAIN browsers
       THEN /\ del' = [del EXCEPT ![d] =
                          [pc |-> "engine_close", sid |-> sid,
                           display_num |-> Get(browser_displays, sid)]]
            /\ hist' = h
       ELSE /\ del' = Returned(d, "True")
            /\ hist' = [h EXCEPT ![sid].trues = @ + 1]

\* close_browser's `async with self._lock`: the tables are popped at once
\* when the browser lock is free, after a wait when cleanup holds it.
CloseBrowser(d, sid) ==
    LET h == [hist EXCEPT ![sid].popped = @ + 1] IN
    IF BrowserLockFree
    THEN PopBrowser(d, sid, h)
    ELSE /\ del' = [del EXCEPT ![d] =
                       [pc |-> "pop_wait", sid |-> sid, display_num |-> None]]
         /\ hist' = h
         /\ UNCHANGED <<browsers, browser_displays>>

\* A close_browser that waited for the browser lock is given it.
PopGranted(d) ==
    /\ del[d].pc = "pop_wait"
    /\ BrowserLockFree
    /\ PopBrowser(d, del[d].sid, hist)
    /\ UNCHANGED <<screens, screenLock, sessions, now, call, to_remove, leases,
                   engine, shut, released>>

\* delete_session up to its first suspension: the session is popped under
\* the registry lock; an id that is not there returns False; for one that
\* is, close_browser is entered.
PopSession(d, sid) ==
    IF sid \in DOMAIN sessions
    THEN /\ sessions' = Pop(sessions, sid)
         /\ CloseBrowser(d, sid)
    ELSE UNCHANGED <<sessions, browsers, browser_displays, del, hist>>

\* DELETE /sessions/{session_id}, for any id a client may send.
DeleteSession(d, sid) ==
    /\ d \in Manual
    /\ del[d].pc = "idle"
    /\ PopSession(d, sid)
    /\ UNCHANGED <<screens, screenLock, now, call, to_remove, leases, engine,
                   shut, released>>

\* release_screen's body, under the pool lock; close_browser and
\* delete_session then return True.
Release(d, h) ==
    LET sid == del[d].sid
        display_num == del[d].display_num IN
    /\ screens' = release_screen(screens, display_num).screens
    /\ leases' = leases \ {<<sid, display_num>>}
    /\ hist' = [h EXCEPT ![sid].releases = @ + 1, ![sid].trues = @ + 1]
    /\ del' = Returned(d, "True")

\* close_browser: `await browser_data["instance"].close()`, outside any try.
\* When it raises, the exception leaves close_browser and delete_session.
\* When it returns, the display, if any, is released: at once when the pool
\* lock is free, after a wait when it is held.
EngineClose(d) ==
    /\ del[d].pc = "engine_close"
    /\ LET sid == del[d].sid
           closed == [hist EXCEPT ![sid].closes = @ + 1] IN
       \/ /\ engine' = [engine EXCEPT ![sid] = "closed"]
          /\ IF del[d].display_num = None
             THEN /\ del' = Returned(d, "True")
                  /\ hist' = [closed EXCEPT ![sid].trues = @ + 1]
                  /\ UNCHANGED <<screens, leases>>
             ELSE IF LockFree
             THEN Release(d, closed)
             ELSE /\ del' = [del EXCEPT ![d].pc = "release"]
                  /\ hist' = closed
                  /\ UNCHANGED <<screens, leases>>
       \/ /\ engine' = engine
          /\ del' = Returned(d, "raised")
          /\ hist' = [closed EXCEPT ![sid].raised = @ + 1]
          /\ UNCHANGED <<screens, leases>>
    /\ UNCHANGED <<screenLock, browsers, browser_displays, sessions, now, call,
                   to_remove, shut, released>>

\* A release_screen that waited for the pool lock is given it.
ReleaseScreen(d) ==
    /\ del[d].pc = "release"
    /\ LockFree
    /\ Release(d, hist)
    /\ UNCHANGED <<screenLock, browsers, browser_displays, sessions, now, call,
                   to_remove, engine, shut, released>>

\* ------------------------------------------------------------------ lookups
\* get_session(session_id): the session, or None (the empty sequence).  It
\* reads the registry under its lock, without suspending.
get_session(session_id) ==
    IF session_id \in DOMAIN sessions THEN <<sessions[session_id]>> ELSE <<>>

\* list_sessions(): the ids of the sessions in the registry.
list_sessions == {sessions[session_id].browser_id : session_id \in DOMAIN sessions}

\* ------------------------------------------------------------- cleanup loop
\* A sweep that takes every session for expired.
Expired_All(session, t) == TRUE

\* _cleanup_expired_sessions' test of one session.
Expired(session, t) == session.expires_at < t

\* _cleanup_loop wakes up and _cleanup_expired_sessions takes its snapshot.
CleanupExpiredSessions ==
    /\ del[Reaper].pc = "idle"
    /\ to_remove = {}
    /\ to_remove' = {sid \in DOMAIN sessions : Expired(sessions[sid], now)}
    /\ UNCHANGED <<screens, screenLock, browsers, browser_displays, sessions,
                   now, call, del, leases, engine, hist, shut, released>>

\* `for session_id in to_remove: await self.delete_session(session_id)`.
\* The list is taken in any order.
CleanupDelete(sid) ==
    /\ del[Reaper].pc = "idle"
    /\ sid \in to_remove
    /\ to_remove' = to_remove \ {sid}
    /\ PopSession(Reaper, sid)
    /\ UNCHANGED <<screens, screenLock, now, call, leases, engine,
                   shut, released>>

\* ---------------------------------------------------------------- the clock
Tick ==
    /\ now < MaxTime
    /\ now' = now + 1
    /\ UNCHANGED <<screens, screenLock, browsers, browser_displays, sessions,
                   call, del, to_remove, leases, engine, hist,
                   shut, released>>

\* ----------------------------------------------------------------- shutdown
\* The holder of the pool lock while ScreenManager.cleanup runs.
ShutdownTask == 0

\* stop_screen's two parts, in the order it takes them.
Processes == <<"vnc_process", "xvfb_process">>

\* The place of (display_num, process) in the order cleanup stops them.
StopOrder(display_num, process) ==
    2 * (display_num - BaseDisplay) + (IF process = Processes[1] THEN 0 ELSE 1)

\* The handle stop_screen tests: `if screen_info[process]`.
Handle(scr, display_num, process) ==
    IF process = "vnc_process" THEN scr[display_num].vnc_process
                               ELSE scr[display_num].xvfb_process

\* A stop_screen that forgets to clear the handle.
ClearHandle_Kept(scr, display_num, process) == scr

\* stop_screen: `screen_info[process] = None`.
ClearHandle(scr, display_num, process) ==
    IF process = "vnc_process"
    THEN [scr EXCEPT ![display_num].vnc_process = "None"]
    ELSE [scr EXCEPT ![display_num].xvfb_process = "None"]

\* ScreenManager.cleanup's loop over stop_screen from place `from` on, run to
\* its first suspension, the pool lock held.  A part whose handle is None is
\* passed over; for a recorded handle terminate() raises (the except logs
\* it, the handle stays, success is False) and the loop goes on, or it
\* returns and stop_screen sleeps.  After the last slot the lock is
\* released, BrowserManager.cleanup goes on to `await self.playwright.stop()`.
StopFrom(from, scr, success) ==
    LET parts == {<<d, i>> \in Displays \X {1, 2} :
                     /\ StopOrder(d, Processes[i]) >= from
                     /\ Handle(scr, d, Processes[i]) # "None"}
        before(p, q) == StopOrder(p[1], Processes[p[2]])
                           < StopOrder(q[1], Processes[q[2]])
    IN /\ screens' = scr
       /\ \/ \E q \in parts :
                /\ screenLock' = ShutdownTask
                /\ shut' = [pc |-> "stop_wait", to_close |-> {},
                            display_num |-> q[1], process |-> Processes[q[2]],
                            success |-> success /\ ~\E p \in parts : before(p, q)]
          \/ /\ screenLock' = None
             /\ shut' = [IdleShut EXCEPT !.pc = "playwright_stop",
                                         !.success = success /\ parts = {}]

\* ScreenManager.cleanup: `async with self._lock`, at once when the pool lock
\* is free, after a wait when an acquire holds it.
ScreenCleanup ==
    IF LockFree
    THEN StopFrom(0, screens, TRUE)
    ELSE /\ shut' = [IdleShut EXCEPT !.pc = "pool_wait"]
         /\ UNCHANGED <<screens, screenLock>>

\* BrowserManager.cleanup's loop has closed its last browser: both tables
\* are cleared, the browser lock is released, ScreenManager.cleanup is
\* entered.
ClearBrowsers ==
    /\ browsers' = Empty
    /\ browser_displays' = Empty
    /\ ScreenCleanup

\* The shutdown handler: BrowserManager.cleanup takes the browser lock and a
\* copy of the browser table, and awaits the close of the first browser.
Shutdown ==
    /\ shut.pc = "idle"
    /\ IF browsers = Empty
       THEN ClearBrowsers
       ELSE /\ shut' = [IdleShut EXCEPT !.pc = "closing",
                                         !.to_close = DOMAIN browsers]
            /\ UNCHANGED <<browsers, browser_displays, screens, screenLock>>
    /\ UNCHANGED <<sessions, now, call, del, to_remove, leases, engine, hist,
                   released>>

\* `await browser_data["instance"].close()` inside try/except: the browser
\* is closed, or the error is logged.  The copy is taken in any order.
ShutdownClose(b) ==
    /\ shut.pc = "closing"
    /\ b \in shut.to_close
    /\ \/ engine' = [engine EXCEPT ![b] = "closed"]
       \/ engine' = engine
    /\ IF shut.to_close = {b}
       THEN ClearBrowsers
       ELSE /\ shut' = [shut EXCEPT !.to_close = @ \ {b}]
            /\ UNCHANGED <<browsers, browser_displays, screens, screenLock>>
    /\ UNCHANGED <<sessions, now, call, del, to_remove, leases, hist, released>>

\* A ScreenManager.cleanup that waited for the pool lock is given it.
ShutdownPoolGranted ==
    /\ shut.pc = "pool_wait"
    /\ LockFree
    /\ StopFrom(0, screens, TRUE)
    /\ UNCHANGED <<browsers, browser_displays, sessions, now, call, del,
                   to_remove, leases, engine, hist, released>>

\* stop_screen after its sleep: the process is killed if it still runs and
\* the handle is cleared; or kill() raises, the except logs it, the handle
\* stays and success is False.  Then the loop goes on.
StopSettled ==
    /\ shut.pc = "stop_wait"
    /\ LET next == StopOrder(shut.display_num, shut.process) + 1 IN
       \/ StopFrom(next, ClearHandle(screens, shut.display_num, shut.process),
                   shut.success)
       \/ StopFrom(next, screens, FALSE)
    /\ UNCHANGED <<browsers, browser_displays, sessions, now, call, del,
                   to_remove, leases, engine, hist, released>>

\* `await self.playwright.stop()`: it returns and playwright is set to None,
\* or it raises and the exception leaves the shutdown handler.
PlaywrightStop ==
    /\ shut.pc = "playwright_stop"
    /\ \/ shut' = [shut EXCEPT !.pc = "done"]
       \/ shut' = [shut EXCEPT !.pc = "raised"]
    /\ UNCHANGED <<screens, screenLock, browsers, browser_displays, sessions,
                   now, call, del, to_remove, leases, engine, hist, released>>

\* --------------------------------------------------------------------- Next
Next ==
    \/ \E c \in Calls, browser_type \in RequestedTypes, headless \in BOOLEAN,
          timeout \in Timeouts :
          CreateSession(c, browser_type, headless, timeout)
    \/ \E c \in Calls : LockGranted(c)
    \/ \E c \in Calls : XvfbSettled(c)
    \/ \E c \in Calls : VncSettled(c)
    \/ \E c \in Calls : Launch(c)
    \/ \E c \in Calls : NewContext(c)
    \/ \E d \in Manual, sid \in Calls : DeleteSession(d, sid)
    \/ \E d \in Deleters : EngineClose(d)
    \/ \E d \in Deleters : ReleaseScreen(d)
    \/ CleanupExpiredSessions
    \/ \E sid \in Calls : CleanupDelete(sid)
    \/ Tick

Spec == Init /\ [][Next]_vars

\* create_session calls made one after another: a call is made only once the
\* calls before it have returned.  No call then ever waits for the pool lock.
Sequential(c) == \A k \in Calls \ {c} : call[k].pc \in {"idle", "done"}

SeqNext ==
    \/ \E c \in Calls, browser_type \in RequestedTypes, headless \in BOOLEAN,
          timeout \in Timeouts :
          Sequential(c) /\ CreateSession(c, browser_type, headless, timeout)
    \/ \E c \in Calls : XvfbSettled(c)
    \/ \E c \in Calls : VncSettled(c)
    \/ \E c \in Calls : Launch(c)
    \/ \E c \in Calls : NewContext(c)
    \/ \E d \in Manual, sid \in Calls : DeleteSession(d, sid)
    \/ \E d \in Deleters : EngineClose(d)
    \/ \E d \in Deleters : ReleaseScreen(d)
    \/ CleanupExpiredSessions
    \/ \E sid \in Calls : CleanupDelete(sid)
    \/ Tick

SeqSpec == Init /\ [][SeqNext]_vars

\* The service from startup to the end of its shutdown handler.  Nothing in
\* the handler stops the requests in flight or the cleanup loop.
ServiceNext ==
    \/ \E c \in 1 .. NumLateCalls, browser_type \in RequestedTypes, headless \in BOOLEAN,
          timeout \in Timeouts :
          CreateSession(c, browser_type, headless, timeout)
    \/ \E c \in Calls : LockGranted(c)
    \/ \E c \in Calls : XvfbSettled(c)
    \/ \E c \in Calls : VncSettled(c)
    \/ \E c \in Calls : Launch(c)
    \/ \E c \in Calls : NewContext(c)
    \/ \E c \in Calls : StoreGranted(c)
    \/ \E d \in Manual, sid \in Calls : DeleteSession(d, sid)
    \/ \E d \in Deleters : PopGranted(d)
    \/ \E d \in Deleters : EngineClose(d)
    \/ \E d \in Deleters : ReleaseScreen(d)
    \/ CleanupExpiredSessions
    \/ \E sid \in Calls : CleanupDelete(sid)
    \/ Tick
    \/ Shutdown
    \/ \E b \in Calls : ShutdownClose(b)
    \/ ShutdownPoolGranted
    \/ StopSettled
    \/ PlaywrightStop

ServiceSpec == Init /\ [][ServiceNext]_vars

\* create_session called with any timeout a request can carry.
AnyTimeoutNext ==
    \/ \E c \in Calls, browser_type \in RequestedTypes, headless \in BOOLEAN,
          timeout \in RequestTimeouts :
          CreateSession(c, browser_type, headless, timeout)
    \/ \E c \in Calls : LockGranted(c)
    \/ \E c \in Calls : XvfbSettled(c)
    \/ \E c \in Calls : VncSettled(c)
    \/ \E c \in Calls : Launch(c)
    \/ \E c \in Calls : NewContext(c)
    \/ Tick

AnyTimeoutSpec == Init /\ [][AnyTimeoutNext]_vars

\* The event loop runs every task that is ready: a sleep ends, an awaited
\* engine call returns or raises, a free lock is handed to a waiter, the
\* cleanup loop wakes up after each CLEANUP_INTERVAL, and time passes.
\* Whether a client sends a request is up to the client.
Fairness ==
    /\ \A c \in Calls : WF_vars(LockGranted(c))
    /\ \A c \in Calls : WF_vars(XvfbSettled(c))
    /\ \A c \in Calls : WF_vars(VncSettled(c))
    /\ \A c \in Calls : WF_vars(Launch(c))
    /\ \A c \in Calls : WF_vars(NewContext(c))
    /\ \A d \in Deleters : WF_vars(EngineClose(d))
    /\ \A d \in Deleters : WF_vars(ReleaseScreen(d))
    /\ WF_vars(CleanupExpiredSessions)
    /\ \A sid \in Calls : WF_vars(CleanupDelete(sid))
    /\ WF_vars(Tick)

\* The service left to its cleanup loop: no client sends a DELETE.
CleanupNext ==
    \/ \E c \in Calls, browser_type \in RequestedTypes, headless \in BOOLEAN,
          timeout \in Timeouts :
          CreateSession(c, browser_type, headless, timeout)
    \/ \E c \in Calls : LockGranted(c)
    \/ \E c \in Calls : XvfbSettled(c)
    \/ \E c \in Calls : VncSettled(c)
    \/ \E c \in Calls : Launch(c)
    \/ \E c \in Calls : NewContext(c)
    \/ EngineClose(Reaper)
    \/ ReleaseScreen(Reaper)
    \/ CleanupExpiredSessions
    \/ \E sid \in Calls : CleanupDelete(sid)
    \/ Tick

FairSpec == Init /\ [][CleanupNext]_vars /\ Fairness

\* The same service shut down at some moment: the awaits of the shutdown
\* handler end too, and a free lock is handed to whoever waits for it.
ShutdownFairness ==
    /\ Fairness
    /\ \A c \in Calls : WF_vars(StoreGranted(c))
    /\ \A d \in Deleters : WF_vars(PopGranted(d))
    /\ \A b \in Calls : WF_vars(ShutdownClose(b))
    /\ WF_vars(ShutdownPoolGranted)
    /\ WF_vars(StopSettled)
    /\ WF_vars(PlaywrightStop)

ShutdownNext ==
    \/ \E c \in 1 .. NumLateCalls, browser_type \in RequestedTypes,
          headless \in BOOLEAN, timeout \in Timeouts :
          CreateSession(c, browser_type, headless, timeout)
    \/ \E c \in Calls : LockGranted(c)
    \/ \E c \in Calls : XvfbSettled(c)
    \/ \E c \in Calls : VncSettled(c)
    \/ \E c \in Calls : Launch(c)
    \/ \E c \in Calls : NewContext(c)
    \/ \E c \in Calls : StoreGranted(c)
    \/ PopGranted(Reaper)
    \/ EngineClose(Reaper)
    \/ ReleaseScreen(Reaper)
    \/ CleanupExpiredSessions
    \/ \E sid \in Calls : CleanupDelete(sid)
    \/ Tick
    \/ Shutdown
    \/ \E b \in Calls : ShutdownClose(b)
    \/ ShutdownPoolGranted
    \/ StopSettled
    \/ PlaywrightStop

ShutdownFairSpec == Init /\ [][ShutdownNext]_vars /\ ShutdownFairness

\* ----------------------------------------------------- the pool on its own
\* ScreenManager.release_screen called directly, with any display number, on
\* a pool in any state its slots can be in: each slot in use or not, each of
\* its two processes recorded or not.
SlotStates ==
    [in_use : BOOLEAN, xvfb_process : {"None", "running"},
     vnc_process : {"None", "running"}]

PoolInit ==
    /\ \E t \in [Displays -> SlotStates] :
          screens = [d \in Displays |->
                        [in_use |-> t[d].in_use,
                         xvfb_process |-> t[d].xvfb_process,
                         vnc_process |-> t[d].vnc_process,
                         geometry |-> InitScreens[d].geometry,
                         vnc_port |-> InitScreens[d].vnc_port]]
    /\ screenLock = None
    /\ browsers = Empty
    /\ browser_displays = Empty
    /\ sessions = Empty
    /\ now = 0
    /\ call = [c \in Calls |-> IdleCall]
    /\ del = [d \in Deleters |-> IdleDel]
    /\ to_remove = {}
    /\ leases = {}
    /\ engine = [c \in Calls |-> "None"]
    /\ hist = [c \in Calls |-> NoHist]
    /\ shut = IdleShut
    /\ released = NoRelease

\* The display numbers a caller may pass: those of the pool and one beyond.
DisplayArgs == Displays \cup {BaseDisplay + MaxScreens}

ReleaseScreenCall(display_num) ==
    /\ LockFree
    /\ LET r == release_screen(screens, display_num) IN
          /\ screens' = r.screens
          /\ released' = [display_num |-> display_num,
                          result |-> IF r.result THEN "True" ELSE "False",
                          before |-> screens]
    /\ UNCHANGED <<screenLock, browsers, browser_displays, sessions, now, call,
                   del, to_remove, leases, engine, hist, shut>>

PoolNext == \E display_num \in DisplayArgs : ReleaseScreenCall(display_num)

PoolSpec == PoolInit /\ [][PoolNext]_vars


\* ------------------------------------------------------------------ helpers
\* The display a session holds: its browser's entry in browser_displays.
Holds(sid, d) == sid \in DOMAIN browser_displays /\ browser_displays[sid] = d

\* A delete_session call on this id is still running.
Deleting(sid) ==
    \E d \in Deleters : /\ del[d].pc \in {"pop_wait", "engine_close", "release"}
                        /\ del[d].sid = sid

\* ---------------------------------------------------------------------- C1
\* C1: under every interleaving of get_available_screen and release_screen,
\* concurrent acquires suspended inside start_screen included, at most
\* MaxScreens leases are outstanding and no two of them name the same
\* display number.
C1_LeasesExclusive ==
    /\ Cardinality(leases) <= MaxScreens
    /\ \A l1, l2 \in leases : l1[2] = l2[2] => l1 = l2
    /\ \A l \in leases : l[2] \in Displays /\ screens[l[2]].in_use

\* A lease is out, one acquire sleeps inside start_screen with the pool lock
\* held and another acquire waits for that lock.
C1_Witness ==
    /\ leases # {}
    /\ \E c1, c2 \in Calls :
          /\ call[c1].pc \in {"xvfb_wait", "vnc_wait"}
          /\ call[c2].pc = "acquire"

\* ---------------------------------------------------------------------- C2
\* C2: in every reachable state the registry holds at most MAX_SESSIONS
\* sessions, whatever the interleaving of create_session, delete_session and
\* the cleanup sweeps.
C2_SessionCeiling == Cardinality(DOMAIN sessions) <= MAX_SESSIONS


\* ---------------------------------------------------------------------- C3
\* No delete_session call has removed a session yet.
NoDeletes == \A sid \in Calls : hist[sid].popped = 0

\* The calls before c that returned a session.
Succeeded(c) == {k \in Calls : k < c /\ call[k].result = "ok"}

\* A finished call was refused exactly when MAX_SESSIONS calls before it had
\* succeeded; a refused call has no engine, no session, no browser, no lease.
C3_Refused ==
    \A c \in Calls :
       /\ call[c].result = "capacity" =>
             /\ engine[c] = "None"
             /\ c \notin DOMAIN sessions
             /\ c \notin DOMAIN browsers
             /\ \A d \in Displays : <<c, d>> \notin leases
             /\ NoDeletes => Cardinality(DOMAIN sessions) = MAX_SESSIONS
       /\ (NoDeletes /\ call[c].pc = "done") =>
             (call[c].result = "capacity"
                <=> Cardinality(Succeeded(c)) >= MAX_SESSIONS)

\* The step that refuses a call changes no table.
C3_RefusalStep ==
    \A c \in Calls :
       (call[c].pc = "idle" /\ call'[c].result = "capacity") =>
          UNCHANGED <<sessions, browsers, browser_displays, screens,
                      screenLock, leases, engine>>

\* C3: with create_session calls made one after another, a call is refused
\* with the capacity error exactly when MAX_SESSIONS calls before it have
\* succeeded (no session deleted meanwhile); the refused call stores nothing,
\* leases no slot and launches no engine, and the registry still holds
\* exactly MAX_SESSIONS sessions.
C3_SequentialCapacity == []C3_Refused /\ [][C3_RefusalStep]_vars

\* MAX_SESSIONS calls succeeded, the next one was refused, nothing deleted.
C3_Witness ==
    /\ NoDeletes
    /\ Cardinality(DOMAIN sessions) = MAX_SESSIONS
    /\ \E c \in Calls : /\ call[c].result = "capacity"
                        /\ Cardinality(Succeeded(c)) = MAX_SESSIONS

\* ---------------------------------------------------------------------- C4
\* C4: when the engine launch fails after a display slot was acquired for
\* the call, the slot has been released by the time the error reaches the
\* caller: a call that ended with the launch error holds no lease.
C4_LaunchFailureReleases ==
    \A c \in Calls :
       call[c].result = "launch_error" => \A d \in Displays : <<c, d>> \notin leases

\* ---------------------------------------------------------------------- C5
\* C5: once delete_session has ended for a session it found in the registry,
\* the session is gone, the close of its engine was attempted, the slot it
\* held is released, and no exception reached the caller, also when the
\* engine close failed.
C5_DeleteReleases ==
    \A sid \in Calls :
       (hist[sid].popped > 0 /\ ~Deleting(sid)) =>
          /\ sid \notin DOMAIN sessions
          /\ hist[sid].closes >= 1
          /\ \A d \in Displays : <<sid, d>> \notin leases
          /\ hist[sid].raised = 0

\* ---------------------------------------------------------------------- C6
\* Each session's engine is closed at most once and its slot released at
\* most once, by the one call that found the session.
C6_AtMostOnce ==
    \A sid \in Calls :
       /\ hist[sid].popped <= 1
       /\ hist[sid].closes <= hist[sid].popped
       /\ hist[sid].releases <= hist[sid].closes
       /\ hist[sid].trues + hist[sid].raised <= hist[sid].popped

\* C6: among the delete_session calls on one id exactly one returns True:
\* the call that found the session; the others return False and neither
\* close the engine nor release the slot.
C6_ExactlyOneTrue ==
    /\ C6_AtMostOnce
    /\ \A sid \in Calls :
          (hist[sid].popped > 0 /\ ~Deleting(sid)) => hist[sid].trues = 1

\* ---------------------------------------------------------------------- C7
\* C7: under fair scheduling every session whose time-to-live has elapsed is
\* eventually out of the registry with the slot it held free again.
C7_ExpiredReaped ==
    \A sid \in Calls :
       (sid \in DOMAIN sessions /\ Expired(sessions[sid], now))
          ~> (sid \notin DOMAIN sessions /\ \A d \in Displays : <<sid, d>> \notin leases)

\* ---------------------------------------------------------------------- C8
\* C8: a delete that fails inside a sweep stops neither the sweep nor the
\* cleanup loop: the loop never ends.
C8_LoopSurvives == del[Reaper].pc # "dead"

\* ---------------------------------------------------------------------- C9
\* A downgraded call is launched headless, is never refused for want of a
\* display, and neither it nor its session holds a slot.
C9_Downgraded ==
    \A c \in Calls :
       call[c].downgraded =>
          /\ call[c].pc \in {"launch", "done"}
          /\ call[c].result \in {"None", "ok", "launch_error"}
          /\ call[c].pc = "launch" =>
                call[c].headless /\ ~call[c].req_headless /\ call[c].display_num = None
          /\ c \in DOMAIN browsers =>
                browsers[c].headless /\ browsers[c].display_num = None
          /\ c \notin DOMAIN browser_displays
          /\ \A d \in Displays : <<c, d>> \notin leases

\* A headed request whose get_available_screen ends without a display
\* (every slot in use, or every start failed) goes on to the engine launch,
\* downgraded.
C9_ExhaustedStep ==
    \A c \in Calls :
       (/\ call[c].pc \in {"idle", "acquire", "xvfb_wait", "vnc_wait"}
        /\ call'[c].pc \notin {"idle", "acquire", "xvfb_wait", "vnc_wait"}
        /\ call'[c].result # "capacity"
        /\ ~call'[c].req_headless
        /\ \A d \in Displays : <<c, d>> \notin leases')
       => call'[c].pc = "launch" /\ call'[c].downgraded

C10_SlotsInLockStep ==
    /\ \A sid \in DOMAIN sessions : \A d \in Displays :
          Holds(sid, d) => screens[d].in_use
    /\ \A s1, s2 \in DOMAIN sessions : \A d \in Displays :
          (Holds(s1, d) /\ Holds(s2, d)) => s1 = s2
    /\ \A sid \in Calls :
          (hist[sid].popped > 0 /\ ~Deleting(sid)) =>
             \A d \in Displays : <<sid, d>> \notin leases

\* --------------------------------------------------------------------- C11
\* C11: release_screen never raises and is idempotent: it returns True or
\* False; for a display number the pool does not have it returns False and
\* changes nothing; for a slot that is already free it leaves the slot table
\* as it was; and a second release of the same number changes nothing more.
C11_ReleaseIdempotent ==
    released.display_num # None =>
       LET d == released.display_num
           before == released.before IN
       /\ released.result \in {"True", "False"}
       /\ d \notin Displays => (released.result = "False" /\ screens = before)
       /\ (d \in Displays /\ ~before[d].in_use) => screens = before
       /\ release_screen(screens, d).screens = screens
       /\ \A k \in Displays \ {d} : screens[k] = before[k]

\* A slot that was already free has been released, its processes running.
C11_Witness ==
    /\ released.display_num \in Displays
    /\ ~released.before[released.display_num].in_use
    /\ released.before[released.display_num].xvfb_process = "running"
    /\ released.result = "True"

\* --------------------------------------------------------------------- C12
\* C12: the snapshot a sweep takes holds every session whose expires_at is at
\* or before the time of the sweep, a session whose expires_at equals that
\* time included.
C12_SweepSelectsDue ==
    [][(to_remove = {} /\ to_remove' # {}) =>
          to_remove' = {sid \in DOMAIN sessions : sessions[sid].expires_at <= now}]_vars

\* --------------------------------------------------------------------- C13
\* C13: once the shutdown handler has completed the cleanup task is
\* cancelled: no sweep is in progress (no snapshot left to delete, no
\* delete_session of the task under way) and no sweep starts.
C13_ReaperCancelled ==
    /\ [](shut.pc = "done" =>
             (to_remove = {} /\ del[Reaper].pc \in {"idle", "dead"}))
    /\ [][shut.pc = "done" => to_remove' \subseteq to_remove]_vars

\* --------------------------------------------------------------------- C14
\* C14: every lease is usable: the slot's display process and its viewer
\* process both run, and get_available_screen returned it with a VNC url
\* (no create_session call has met a display that came without one).
C14_LeasesUsable ==
    /\ \A l \in leases : /\ screens[l[2]].xvfb_process = "running"
                         /\ screens[l[2]].vnc_process = "running"
    /\ \A c \in Calls : call[c].result # "error"

\* --------------------------------------------------------------------- C15
\* A call that named an engine that does not exist has ended, and has no
\* engine, no session, no browser and no lease.
C15_NothingDone ==
    \A c \in Calls :
       ~call[c].known_type =>
          /\ call[c].pc = "done"
          /\ call[c].result \in {"unsupported", "capacity", "not_initialized"}
          /\ engine[c] = "None"
          /\ c \notin DOMAIN sessions
          /\ c \notin DOMAIN browsers
          /\ c \notin DOMAIN browser_displays
          /\ \A d \in Displays : <<c, d>> \notin leases

\* The step that takes such a request ends it with the ValueError, unless
\* the capacity test, which comes first, has refused it, and changes no
\* table.
C15_RejectStep ==
    \A c \in Calls :
       (call[c].pc = "idle" /\ ~call'[c].known_type) =>
          /\ call'[c].result =
                IF Cardinality(DOMAIN sessions) >= MAX_SESSIONS
                THEN "capacity"
                ELSE IF shut.pc = "done" THEN "not_initialized"
                ELSE "unsupported"
          /\ UNCHANGED <<sessions, browsers, browser_displays, screens,
                         screenLock, leases, engine>>

\* C15: a create_session request that names an unsupported engine fails
\* with the validation error (a request made at capacity gets the capacity
\* error, whose test comes first) and has no side effect: no slot is
\* acquired, no engine launched, and the session table, the browser table
\* and the slot table are unchanged.
C15_UnsupportedRejected == []C15_NothingDone /\ [][C15_RejectStep]_vars

\* A request for an unknown engine was rejected with the validation error
\* while a session existed and a slot was free.
C15_Witness ==
    \E c \in Calls :
       /\ ~call[c].known_type
       /\ call[c].result = "unsupported"
       /\ sessions # Empty
       /\ \E d \in Displays : ~screens[d].in_use

\* --------------------------------------------------------------------- C16
\* One step of call c seen as a step of get_available_screen, `failed` being
\* the slots whose start_screen returned False: the scan moves upwards; a
\* slot that failed stays free; a slot is leased only if it was free, did
\* not fail, and every slot below it was in use or failed; (None, None) is
\* returned only if every slot was in use or failed.
ScanStep(c) ==
    LET failed == call'[c].failed IN
    /\ call[c].pc \in {"idle", "acquire", "xvfb_wait", "vnc_wait"} =>
          \A j \in failed : ~screens'[j].in_use
    /\ (call[c].pc \in {"xvfb_wait", "vnc_wait"}
          /\ call'[c].pc \in {"xvfb_wait", "vnc_wait"})
       => call'[c].scan >= call[c].scan
    /\ \A d \in Displays :
          (<<c, d>> \in leases' \ leases) =>
             /\ ~screens[d].in_use
             /\ screens'[d].in_use
             /\ d \notin failed
             /\ \A j \in Displays : j < d => (screens[j].in_use \/ j \in failed)
    /\ (call'[c].downgraded /\ ~call[c].downgraded) =>
          /\ \A j \in Displays : screens[j].in_use \/ j \in failed
          /\ leases' = leases

\* get_available_screen scans upwards and leases the first free slot whose
\* start_screen reports success.
C16_ScanOrder == [][\A c \in Calls : ScanStep(c)]_vars

\* The slot a step leases has both its processes running.
StartedStep(c) ==
    \A d \in Displays :
       (<<c, d>> \in leases' \ leases) =>
          /\ screens'[d].xvfb_process = "running"
          /\ screens'[d].vnc_process = "running"

\* C16: get_available_screen scans the slots in ascending order and leases
\* the first free slot whose processes start; a free slot whose start fails
\* is passed over and stays free; (None, None) is returned only when every
\* slot is in use or failed to start.
C16_LeasesFirstStarted ==
    [][\A c \in Calls : ScanStep(c) /\ StartedStep(c)]_vars

\* --------------------------------------------------------------------- C17
\* C17: from the step of delete_session that removes the session on,
\* get_session returns None for its id and list_sessions leaves it out,
\* while the browser tables are still to be popped, the engine close is in
\* progress or the slot is still to be released, and ever after.
C17_RemovedFirst ==
    \A sid \in Calls :
       hist[sid].popped > 0 =>
          /\ get_session(sid) = <<>>
          /\ sid \notin list_sessions

\* A delete_session is awaiting the close of an engine that is still open,
\* the slot of its session still in use, another session being listed.
C17_Witness ==
    \E d \in Deleters :
       /\ del[d].pc = "engine_close"
       /\ engine[del[d].sid] = "open"
       /\ del[d].display_num \in Displays
       /\ screens[del[d].display_num].in_use
       /\ get_session(del[d].sid) = <<>>
       /\ list_sessions # {}

\* --------------------------------------------------------------------- C18
\* A step that releases a slot (through close_browser, or directly) changes
\* nothing of any slot but the in_use flag of the slot released.
ReleaseStep ==
    (released' # released \/ \E sid \in Calls : hist'[sid].releases # hist[sid].releases)
    => \A d \in Displays :
          /\ screens'[d].xvfb_process = screens[d].xvfb_process
          /\ screens'[d].vnc_process = screens[d].vnc_process
          /\ screens'[d].geometry = screens[d].geometry
          /\ screens'[d].vnc_port = screens[d].vnc_port
          /\ screens'[d].in_use => screens[d].in_use

\* Only ScreenManager.cleanup, in stop_screen, clears a process handle.
StoppedByCleanup ==
    \A d \in Displays :
       (\/ screens[d].xvfb_process # "None" /\ screens'[d].xvfb_process = "None"
        \/ screens[d].vnc_process # "None" /\ screens'[d].vnc_process = "None")
       => (shut.pc = "stop_wait" /\ shut.display_num = d)

\* C18: release_screen changes only the slot's in_use flag: its process
\* handles, its geometry and its port stay as they are, so a slot once
\* started stays running over release and acquire; its processes are
\* stopped by cleanup alone.
C18_ReleaseKeepsProcesses == [][ReleaseStep /\ StoppedByCleanup]_vars

\* The one slot ever started was released by one session and is leased
\* again by another, its processes still running, before any shutdown.
C18_Witness ==
    \E l \in leases :
       /\ \E sid \in Calls \ {l[1]} : hist[sid].releases > 0
       /\ screens[l[2]].xvfb_process = "running"
       /\ screens[l[2]].vnc_process = "running"
       /\ \A d \in Displays \ {l[2]} : screens[d].xvfb_process = "None"
       /\ shut.pc = "idle"

\* --------------------------------------------------------------------- C19
\* C19: no lock is held across a slow operation: whenever a task is
\* suspended (in a slot start or stop, an engine launch or close) the pool
\* lock and the browser lock are free, so no release, store, pop, acquire or
\* cleanup ever waits for a lock.
C19_ShortCriticalSections ==
    /\ screenLock = None
    /\ BrowserLockFree
    /\ \A c \in Calls : call[c].pc \notin {"acquire", "store_wait"}
    /\ \A d \in Deleters : del[d].pc \notin {"pop_wait", "release"}
    /\ shut.pc # "pool_wait"

\* A release_screen waits for the pool lock, which an acquire holds while it
\* sleeps in start_screen.
C19_ReleaseBlocked ==
    \E d \in Deleters, c \in Calls :
       /\ del[d].pc = "release"
       /\ call[c].pc \in {"xvfb_wait", "vnc_wait"}
       /\ screenLock = c

\* A close_browser and a create_browser_instance wait for the browser lock,
\* which cleanup holds while it awaits the close of an engine.
C19_BrowserLockBlocked ==
    /\ shut.pc = "closing"
    /\ \E d \in Deleters : del[d].pc = "pop_wait"
    /\ \E c \in Calls : call[c].pc = "store_wait"

\* --------------------------------------------------------------------- C20
\* ScreenManager.cleanup is under way: it waits for the pool lock or sleeps
\* in stop_screen.
PoolCleanupRunning == shut.pc \in {"pool_wait", "stop_wait"}

\* ScreenManager.cleanup has returned.
PoolCleanupDone == shut.pc \in {"playwright_stop", "done", "raised"}

\* The step on which ScreenManager.cleanup returns: the pool lock is free
\* again, and with no stop failure every handle is cleared.
CleanupReturns ==
    (~PoolCleanupDone /\ PoolCleanupDone') =>
       /\ screenLock' = None
       /\ shut'.success =>
             \A d \in Displays : /\ screens'[d].xvfb_process = "None"
                                 /\ screens'[d].vnc_process = "None"

\* C20: ScreenManager.cleanup always completes, a stop failure does not end
\* it, and when it completes without stop failure every slot's display and
\* viewer handles are cleared.
C20_CleanupCompletes ==
    /\ PoolCleanupRunning ~> PoolCleanupDone
    /\ [][CleanupReturns]_vars

\* cleanup has returned although the first process it had to stop failed to
\* stop: the slots after it were stopped all the same.
C20_Witness ==
    /\ PoolCleanupDone
    /\ ~shut.success
    /\ screens[BaseDisplay].vnc_process = "running"
    /\ \E l \in leases : /\ l[2] # BaseDisplay
                         /\ screens[l[2]].xvfb_process = "None"
                         /\ screens[l[2]].vnc_process = "None"

\* --------------------------------------------------------------------- C21
\* C21: every session in the registry has a positive time-to-live: its
\* expires_at is created_at plus a ttl > 0, so strictly later than its
\* created_at.
C21_PositiveTtl ==
    \A sid \in DOMAIN sessions :
       sessions[sid].expires_at > sessions[sid].created_at

\* --------------------------------------------------------------------- C22
\* C22: the slot set is the one made at construction: the display numbers
\* are exactly BaseDisplay .. BaseDisplay + MaxScreens - 1, each slot's port
\* is BaseVncPort + (display number - BaseDisplay), two slots never share a
\* port, and no acquire, release, start, stop or shutdown adds or removes a
\* slot.
C22_SlotSetFixed ==
    /\ DOMAIN screens = BaseDisplay .. (BaseDisplay + MaxScreens - 1)
    /\ Cardinality(DOMAIN screens) = MaxScreens
    /\ \A d \in DOMAIN screens :
          screens[d].vnc_port = BaseVncPort + (d - BaseDisplay)
    /\ \A d1, d2 \in DOMAIN screens :
          screens[d1].vnc_port = screens[d2].vnc_port => d1 = d2

\* Shutdown has completed after slots were started, leased, released and
\* stopped.
C22_Witness ==
    /\ shut.pc = "done"
    /\ \E sid \in Calls : hist[sid].releases > 0
    /\ \E d \in Displays : screens[d].in_use
    /\ \A d \in Displays : screens[d].xvfb_process = "None"

\* --------------------------------------------------------------------- C23
\* One step seen from the sweep: the snapshot holds only sessions whose
\* expires_at is earlier than the time it is taken at; it only shrinks
\* afterwards; the sweep's delete removes the one session it takes from the
\* snapshot and no other; and no step changes a stored session, so one that
\* had expired at the snapshot has expired when it is deleted.
SweepStep ==
    /\ (to_remove = {} /\ to_remove' # {}) =>
          \A sid \in to_remove' :
             sid \in DOMAIN sessions /\ sessions[sid].expires_at < now
    /\ to_remove # {} => to_remove' \subseteq to_remove
    /\ to_remove' # to_remove =>
          \A sid \in DOMAIN sessions \ DOMAIN sessions' :
             sid \in to_remove \ to_remove'
    /\ \A sid \in DOMAIN sessions \cap DOMAIN sessions' :
          sessions'[sid] = sessions[sid]

\* Every session still to be deleted by the sweep has expired.
SnapshotExpired ==
    \A sid \in to_remove \cap DOMAIN sessions : sessions[sid].expires_at < now

\* C23: a sweep removes no session that has not expired: each session it
\* deletes had expires_at earlier than the time of its snapshot, and a
\* session created, or not yet expired, between the snapshot and the
\* deletions stays in the registry.
C23_OnlyExpiredReaped == []SnapshotExpired /\ [][SweepStep]_vars

\* A sweep is deleting an expired session while the registry holds a later
\* session that has not expired, stored at the present time.
C23_Witness ==
    /\ del[Reaper].pc = "engine_close"
    /\ \E sid \in DOMAIN sessions :
          /\ sessions[sid].expires_at >= now
          /\ sessions[sid].created_at = now
          /\ sid > del[Reaper].sid

\* --------------------------------------------------------------------- C24
\* No task holds two locks, or holds one and waits for another: the call
\* that holds the pool lock sleeps in start_screen; the shutdown handler
\* holds the pool lock only inside stop_screen, the browser lock given back;
\* while the browser lock is held its holder neither has nor wants the pool
\* lock.  (The registry lock is never held in any state: its critical
\* sections contain no await.)
NoNestedLocks ==
    /\ \A c \in Calls : screenLock = c => call[c].pc \in {"xvfb_wait", "vnc_wait"}
    /\ screenLock = ShutdownTask => (shut.pc = "stop_wait" /\ BrowserLockFree)
    /\ ~BrowserLockFree => (screenLock # ShutdownTask /\ shut.pc = "closing")
    /\ shut.pc = "pool_wait" => BrowserLockFree

\* C24: the locks are never nested and nothing deadlocks: every task that
\* waits for the pool lock or for the browser lock is, again and again,
\* past its wait.
C24_NoDeadlock ==
    /\ []NoNestedLocks
    /\ \A c \in Calls : []<>(call[c].pc \notin {"acquire", "store_wait"})
    /\ []<>(del[Reaper].pc \notin {"pop_wait", "release"})
    /\ []<>(shut.pc # "pool_wait")

\* The shutdown handler and a release_screen both wait for the pool lock,
\* which a create_session holds while it sleeps in start_screen.
C24_Witness ==
    /\ shut.pc = "pool_wait"
    /\ del[Reaper].pc = "release"
    /\ \E c \in Calls : screenLock = c /\ call[c].pc = "vnc_wait"

\* --------------------------------------------------------------------- C25
\* C25: once BrowserManager.cleanup has completed, the browser table is
\* empty and no engine that was launched is still open.
C25_ShutdownClosesAll ==
    shut.pc = "done" => (browsers = Empty /\ \A c \in Calls : engine[c] # "open")

\* Cleanup completed after closing the one tracked browser, and nothing that
\* was launched is open.
C25_Witness ==
    /\ shut.pc = "done"
    /\ browsers = Empty
    /\ \E c \in Calls : engine[c] = "closed"
    /\ \A c \in Calls : engine[c] # "open"

\* --------------------------------------------------------------------- C26
\* C26: a stored session is recorded headless=false exactly when its browser
\* holds a display slot.
C26_HeadlessMatchesSlot ==
    \A sid \in DOMAIN sessions :
        (~sessions[sid].headless) <=> (sid \in DOMAIN browser_displays)

\* A headed request was served headed: the record says headless=false and
\* the browser holds a slot.
C26_Witness ==
    \E sid \in DOMAIN sessions :
        /\ ~sessions[sid].headless
        /\ sid \in DOMAIN browser_displays
        /\ screens[browser_displays[sid]].in_use

=============================================================================
